---------------------------- MODULE Spec2Model ----------------------------
(***************************************************************************)
(* State-machine model of the ledger package (src/balances.go): the        *)
(* TransferCredits protocol over the NilUsers, LedgerTable and             *)
(* TransactionsTable tables.                                               *)
(*                                                                         *)
(* Every remote call of TransferCredits (GetItem, TransactWriteItems,      *)
(* UpdateItem, SaveToTransactionTable) is one atomic step; the local       *)
(* computation that precedes a remote call is part of that step.  Any      *)
(* remote call may fail with a backend error, in which case it has no      *)
(* effect on the tables.                                                   *)
(*                                                                         *)
(* Amounts are fixed-point integers in thousandths of the currency unit.   *)
(* Stored balances are whole hundredths (multiples of 10), as written by   *)
(* CreateAccount with "%.2f".                                              *)
(*                                                                         *)
(* The query functions (GetTransactions, GetDetailedTransactions,          *)
(* GetTransaction, GetAllNilTransactions) are modelled over a              *)
(* TransactionsTable that holds a fixed set of items (QuerySpec).          *)
(***************************************************************************)
EXTENDS Integers, FiniteSets, Sequences, TLC

\* Number of TransferCredits calls in a behaviour.
MaxCalls == 2

\* Last second the wall clock reaches.
MaxClock == 1

\* Largest number of items TransactionsTable holds when it is queried.
MaxRecords == 3

\* Largest Limit a caller of the query functions passes.
MaxLimit == 2

Calls == 1..MaxCalls

\* TransactionStatus values handed to SaveToTransactionTable.
StatusSuccess == 0
StatusFailed == 1

\* The sentinel tenant substituted for an empty TenantID.
SentinelTenant == "nil"

\* Inputs of a request.  "" is the empty string of the Go source.
TenantIDs == {"", "t1"}
AccountIDs == {"", "A", "B"}
PartyIDs == {"A", "B"}
Amounts == {-50, 60, 65}

AllRequests ==
  [TenantID : TenantIDs, AccountID : AccountIDs, FromAccount : AccountIDs,
   ToAccount : PartyIDs, Amount : Amounts]

\* A request as the older API sent it (AccountID names the sender), for the
\* amount 60.
Plain(r) == r.AccountID = r.FromAccount /\ r.Amount = 60

\* The requests callers send.  With no tenant given: every sender, receiver
\* and amount, and for the amount 60 also every AccountID (the empty one and
\* one that differs from FromAccount) and the empty FromAccount.  With
\* tenant t1: plain requests.
Requests ==
  {r \in AllRequests :
     /\ r.AccountID # r.FromAccount => r.Amount = 60
     /\ r.AccountID = "" => r.FromAccount \in {"", "A"} /\ r.ToAccount = "B"
     /\ r.FromAccount = ""
          => r.AccountID \in {"", "A"} /\ r.ToAccount = "B" /\ r.Amount = 60
     /\ r.TenantID # "" => Plain(r) /\ r.FromAccount # ""}

NoRequest ==
  [TenantID |-> "", AccountID |-> "", FromAccount |-> "A", ToAccount |-> "A",
   Amount |-> 60]

NoUser == [amount |-> 0, Version |-> 0]

\* Thousandths whose last digit is 5 and whose float64 value lies above the
\* decimal tie, so that "%.2f" rounds them up (0.005, 0.025, 0.035, ...); the
\* other ties (0.015, 0.045, ...) lie below it and round down.
TiesUp == {5, 25, 35, 55, 65, 85, 95, 115, 135, 165, 195}

Abs(a) == IF a < 0 THEN -a ELSE a

\* fmt.Sprintf("%.2f", amount), read back by the store as a number: the
\* amount rounded to whole hundredths.
Fmt2(a) ==
  LET m == Abs(a)
      q == m \div 10
      r == m % 10
      up == r > 5 \/ (r = 5 /\ m \in TiesUp)
      v == IF up THEN (q + 1) * 10 ELSE q * 10
  IN IF a < 0 THEN -v ELSE v

VARIABLES
  clock,              \* wall clock in seconds (time.Now().UTC().Unix())
  NilUsers,           \* <<TenantID, AccountID>> -> [amount, Version]
  LedgerTable,        \* set of LedgerEntry items
  TransactionsTable,  \* set of TransactionEntry items
  nextUid,            \* ksuid generator: the next fresh id
  pc,                 \* position of each call
  req,                \* the TransactionEntry each caller passed (by value)
  trEntry,            \* the callee's copy, as TransferCredits rewrites it
  uid,                \* uid of each call
  sender,             \* sender read by GetAccount
  code,               \* response Code being prepared
  response,           \* Code returned to the caller ("" before the return)
  log,                \* history: remote calls of each call, with results
  debited,            \* history: the sender item as each call's debit left it
  qcall,              \* the last call of a query function: its arguments
  qresult,            \* what that call returned
  qpages              \* the pages returned since the cursor was last empty

transferVars ==
  <<clock, NilUsers, LedgerTable, nextUid, pc, req, trEntry, uid, sender,
    code, response, log, debited>>

queryVars == <<qcall, qresult, qpages>>

vars == <<transferVars, TransactionsTable, queryVars>>

Key(t, a) == <<t, a>>

FromKey(c) == Key(trEntry[c].TenantID, trEntry[c].FromAccount)

\* Mutant of ToKey: the credit is keyed by the sentinel tenant, whatever the
\* tenant of the request.
ToKeyOfSentinel(c) == Key(SentinelTenant, trEntry[c].ToAccount)

ToKey(c) == Key(trEntry[c].TenantID, trEntry[c].ToAccount)

InitUsers ==
  (Key("nil", "A") :> [amount |-> 100, Version |-> 0]) @@
  (Key("nil", "B") :> [amount |-> 0, Version |-> 0]) @@
  (Key("t1", "A") :> [amount |-> 100, Version |-> 0])

\* A primary key of TransactionsTable, with the TransactionDate an index on
\* the date adds to it (0 otherwise); NoKey is the absent key (nil, or the
\* empty lastTransactionID).
NoKey == [TenantID |-> "", TransactionID |-> 0, TransactionDate |-> 0]

NoCall ==
  [op |-> "", TenantID |-> "", AccountID |-> "", Limit |-> 0,
   TransactionID |-> 0, StartTime |-> 0, EndTime |-> 0, Status |-> -1,
   Start |-> NoKey]

NoResult == [items |-> <<>>, last |-> NoKey, err |-> ""]

\* No transfer has started.
TransferIdle ==
  /\ clock = 0
  /\ NilUsers = InitUsers
  /\ LedgerTable = {}
  /\ nextUid = 1
  /\ pc = [c \in Calls |-> "idle"]
  /\ req = [c \in Calls |-> NoRequest]
  /\ trEntry = [c \in Calls |-> NoRequest]
  /\ uid = [c \in Calls |-> 0]
  /\ sender = [c \in Calls |-> NoUser]
  /\ code = [c \in Calls |-> ""]
  /\ response = [c \in Calls |-> ""]
  /\ log = [c \in Calls |-> {}]
  /\ debited = [c \in Calls |-> NoUser]

\* No query function has been called.
QueryIdle ==
  /\ qcall = NoCall
  /\ qresult = NoResult
  /\ qpages = <<>>

Init ==
  /\ TransferIdle
  /\ TransactionsTable = {}
  /\ QueryIdle

\* getCurrentTimestamp: the Unix second of the wall clock.
getCurrentTimestamp == clock

\* The log of call c with one more remote call: its kind, the key it
\* addressed, the delta it carried and whether it took effect.
Logged(c, op, k, d, ok) ==
  [log EXCEPT ![c] = @ \cup {[op |-> op, key |-> k, delta |-> d, ok |-> ok]}]

\* The wall clock advances by one second.
Tick ==
  /\ clock < MaxClock
  /\ clock' = clock + 1
  /\ UNCHANGED <<NilUsers, LedgerTable, TransactionsTable, nextUid, pc, req,
                 trEntry, uid, sender, code, response, log, debited,
                 queryVars>>

\* Calls are interchangeable: call c starts once call c - 1 has started.
MayStart(c) == pc[c] = "idle" /\ \A d \in Calls : d < c => pc[d] # "idle"

\* TransferCredits, lines 243-245: an empty AccountID is rejected before
\* anything is read or written.
Reject(c, r) ==
  /\ MayStart(c)
  /\ r.AccountID = ""
  /\ req' = [req EXCEPT ![c] = r]
  /\ pc' = [pc EXCEPT ![c] = "done"]
  /\ response' = [response EXCEPT ![c] = "validation_error"]
  /\ UNCHANGED <<clock, NilUsers, LedgerTable, TransactionsTable, nextUid,
                 trEntry, uid, sender, code, log, debited, queryVars>>

\* The TenantID of the callee's copy: "nil" when the caller gave none.
SubstTenant(r) ==
  [r EXCEPT !.TenantID = IF r.TenantID = "" THEN SentinelTenant ELSE @]

\* TransferCredits, lines 246-282: tenant substitution, a fresh uid, and
\* GetAccount keyed by (TenantID, trEntry.AccountID).  err is a backend error
\* of GetItem.
GetSender(c, r, err) ==
  /\ MayStart(c)
  /\ r.AccountID # ""
  /\ LET e == SubstTenant(r)
         k == Key(e.TenantID, e.AccountID)
         found == ~err /\ k \in DOMAIN NilUsers
     IN /\ req' = [req EXCEPT ![c] = r]
        /\ trEntry' = [trEntry EXCEPT ![c] = e]
        /\ uid' = [uid EXCEPT ![c] = nextUid]
        /\ nextUid' = nextUid + 1
        /\ log' = Logged(c, "get_sender", k, 0, found)
        /\ IF found
             THEN /\ sender' = [sender EXCEPT ![c] = NilUsers[k]]
                  /\ pc' = [pc EXCEPT ![c] = "get_receiver"]
                  /\ code' = code
             ELSE /\ sender' = sender
                  /\ pc' = [pc EXCEPT ![c] = "save"]
                  /\ code' = [code EXCEPT ![c] = "user_not_found"]
  /\ UNCHANGED <<clock, NilUsers, LedgerTable, TransactionsTable, response,
                 debited, queryVars>>

\* TransferCredits, lines 284-317: trEntry.AccountID := trEntry.ToAccount,
\* GetAccount of the receiver, then the check of the amount against the
\* balance read from the sender.  (The two MarshalMap calls of lines 338-345
\* cannot fail for a struct of strings and numbers.)
GetReceiver(c, err) ==
  /\ pc[c] = "get_receiver"
  /\ LET e == [trEntry[c] EXCEPT !.AccountID = trEntry[c].ToAccount]
         k == Key(e.TenantID, e.AccountID)
         found == ~err /\ k \in DOMAIN NilUsers
     IN /\ trEntry' = [trEntry EXCEPT ![c] = e]
        /\ log' = Logged(c, "get_receiver", k, 0, found)
        /\ IF ~found
             THEN /\ pc' = [pc EXCEPT ![c] = "save"]
                  /\ code' = [code EXCEPT ![c] = "user_not_found"]
             ELSE IF e.Amount > sender[c].amount
                    THEN /\ pc' = [pc EXCEPT ![c] = "save"]
                         /\ code' = [code EXCEPT ![c] = "insufficient_balance"]
                    ELSE /\ pc' = [pc EXCEPT ![c] = "debit"]
                         /\ code' = code
  /\ UNCHANGED <<clock, NilUsers, LedgerTable, TransactionsTable, nextUid, req,
                 uid, sender, response, debited, queryVars>>

\* The transaction value of lines 253-264 with the status of the call site.
Transaction(c, status) ==
  [TenantID |-> trEntry[c].TenantID, AccountID |-> trEntry[c].FromAccount,
   SystemTransactionID |-> uid[c], FromAccount |-> trEntry[c].FromAccount,
   ToAccount |-> trEntry[c].ToAccount, Amount |-> trEntry[c].Amount,
   Status |-> status]

\* SaveToTransactionTable: one item under (TenantID, SystemTransactionID).
SaveToTransactionTable(t) ==
  {x \in TransactionsTable :
     ~(/\ x.TenantID = t.TenantID
       /\ x.SystemTransactionID = t.SystemTransactionID)} \cup {t}

\* debitEntry and creditEntry of lines 319-336.
LedgerEntry(c, account, type) ==
  [TenantID |-> trEntry[c].TenantID, AccountID |-> account,
   Amount |-> trEntry[c].Amount, SystemTransactionID |-> uid[c],
   Type |-> type]

\* Mutant of VersionCondition: the update carries no version condition.
VersionConditionAbsent(c, k) == TRUE

\* ConditionExpression "attribute_not_exists(Version) OR Version = :oldVersion"
\* with :oldVersion = sender.Version, on the item under key k.
VersionCondition(c, k) ==
  k \notin DOMAIN NilUsers \/ NilUsers[k].Version = sender[c].Version

\* UpdateExpression "SET amount = amount + d, Version = :newVersion" on the
\* item under key k (which has an amount).
Adjusted(k, d) ==
  [NilUsers EXCEPT ![k] = [amount |-> @.amount + d,
                           Version |-> getCurrentTimestamp]]

\* The :amount of the three updates, each formatted with "%.2f".
DebitDelta(c) == -Fmt2(trEntry[c].Amount)

\* Mutant of CreditDelta: the credit adds the amount as requested instead of
\* the formatted amount.
CreditDeltaUnformatted(c) == trEntry[c].Amount

CreditDelta(c) == Fmt2(trEntry[c].Amount)

\* Mutant of RollbackDelta: the rollback restores the amount as requested
\* instead of the formatted amount the debit took.
RollbackDeltaUnformatted(c) == trEntry[c].Amount

RollbackDelta(c) == Fmt2(trEntry[c].Amount)

\* Mutant of LedgerPut: the entry is put by a call of its own, whatever
\* becomes of the update.
LedgerPutAlways(commits, entry) == LedgerTable \cup {entry}

\* The Put of a LedgerEntry inside a TransactWriteItems call: written if and
\* only if the whole call commits.
LedgerPut(commits, entry) ==
  IF commits THEN LedgerTable \cup {entry} ELSE LedgerTable

\* History: the debit of call c found, under key k, a version other than the
\* one read from the sender.
Stale(c, k) ==
  IF k \in DOMAIN NilUsers /\ NilUsers[k].Version # sender[c].Version
    THEN {[op |-> "stale", key |-> k, delta |-> 0, ok |-> FALSE]}
    ELSE {}

\* Mutant of AuditAtDebit: the debit call also puts a pending
\* TransactionRecord.
AuditAtDebitPending(c) ==
  SaveToTransactionTable(Transaction(c, StatusFailed + 1))

\* The TransactItems of the debit call are the Update of NilUsers and the Put
\* into LedgerTable (lines 348-370): TransactionsTable is not written.
AuditAtDebit(c) == TransactionsTable

\* TransferCredits, lines 347-390: the debit TransactWriteItems.  The update
\* is keyed by trEntry.FromAccount and conditioned on the version read from
\* the sender.  On an absent item the condition holds and the update fails,
\* since "amount - :amount" reads an attribute that does not exist.
Debit(c, err) ==
  /\ pc[c] = "debit"
  /\ LET k == FromKey(c)
         commits == ~err /\ k \in DOMAIN NilUsers /\ VersionCondition(c, k)
     IN /\ NilUsers' = IF commits THEN Adjusted(k, DebitDelta(c)) ELSE NilUsers
        /\ LedgerTable' =
             LedgerPut(commits, LedgerEntry(c, trEntry[c].FromAccount, "debit"))
        /\ log' = [Logged(c, "debit", k, DebitDelta(c), commits)
                     EXCEPT ![c] = @ \cup Stale(c, k)]
        /\ debited' = IF commits THEN [debited EXCEPT ![c] = NilUsers'[k]]
                                  ELSE debited
        /\ IF commits
             THEN /\ pc' = [pc EXCEPT ![c] = "credit"]
                  /\ code' = code
             ELSE /\ pc' = [pc EXCEPT ![c] = "save"]
                  /\ code' = [code EXCEPT ![c] = "debit_failed"]
  /\ TransactionsTable' = AuditAtDebit(c)
  /\ UNCHANGED <<clock, nextUid, req, trEntry, uid, sender, response,
                 queryVars>>

\* TransferCredits, lines 392-418: the credit TransactWriteItems, conditioned
\* on "attribute_exists(AccountID) AND TenantID = :tenantID".
Credit(c, err) ==
  /\ pc[c] = "credit"
  /\ LET k == ToKey(c)
         commits == ~err /\ k \in DOMAIN NilUsers
     IN /\ NilUsers' = IF commits THEN Adjusted(k, CreditDelta(c)) ELSE NilUsers
        /\ LedgerTable' =
             LedgerPut(commits, LedgerEntry(c, trEntry[c].ToAccount, "credit"))
        /\ log' = Logged(c, "credit", k, CreditDelta(c), commits)
        /\ IF commits
             THEN /\ pc' = [pc EXCEPT ![c] = "save"]
                  /\ code' = [code EXCEPT ![c] = "successful_transaction"]
             ELSE /\ pc' = [pc EXCEPT ![c] = "rollback"]
                  /\ code' = code
  /\ UNCHANGED <<clock, TransactionsTable, nextUid, req, trEntry, uid, sender,
                 response, debited, queryVars>>

\* Mutant of RollbackFailed: a failed rollback is reported as credit_failed.
RollbackFailedReturns(c) ==
  /\ pc' = [pc EXCEPT ![c] = "save"]
  /\ code' = [code EXCEPT ![c] = "credit_failed"]
  /\ response' = response

\* TransferCredits, lines 435-437: a failed rollback panics.
RollbackFailed(c) ==
  /\ pc' = [pc EXCEPT ![c] = "panicked"]
  /\ response' = [response EXCEPT ![c] = "panic_rollback"]
  /\ code' = code

\* TransferCredits, lines 419-439: the rollback UpdateItem on the sender,
\* conditioned on the version read before the debit.
Rollback(c, err) ==
  /\ pc[c] = "rollback"
  /\ LET k == FromKey(c)
         commits == ~err /\ k \in DOMAIN NilUsers /\ VersionCondition(c, k)
     IN /\ NilUsers' =
             IF commits THEN Adjusted(k, RollbackDelta(c)) ELSE NilUsers
        /\ log' = Logged(c, "rollback", k, RollbackDelta(c), commits)
        /\ IF commits
             THEN /\ pc' = [pc EXCEPT ![c] = "save"]
                  /\ code' = [code EXCEPT ![c] = "credit_failed"]
                  /\ response' = response
             ELSE RollbackFailed(c)
  /\ UNCHANGED <<clock, LedgerTable, TransactionsTable, nextUid, req, trEntry,
                 uid, sender, debited, queryVars>>

\* The call sites of lines 269, 288 and 304 drop the error of
\* SaveToTransactionTable; those of lines 375, 440 and 458 panic on it.
ErrorDropped(c) == code[c] \in {"user_not_found", "insufficient_balance"}

\* The audit write that ends every path, and the return to the caller.
Save(c, err) ==
  /\ pc[c] = "save"
  /\ LET status == IF code[c] = "successful_transaction"
                     THEN StatusSuccess ELSE StatusFailed
     IN /\ TransactionsTable' =
             IF err THEN TransactionsTable
                    ELSE SaveToTransactionTable(Transaction(c, status))
        /\ log' = Logged(c, "save", FromKey(c), 0, ~err)
        /\ IF err /\ ~ErrorDropped(c)
             THEN /\ pc' = [pc EXCEPT ![c] = "panicked"]
                  /\ response' = [response EXCEPT ![c] = "panic_save"]
             ELSE /\ pc' = [pc EXCEPT ![c] = "done"]
                  /\ response' = [response EXCEPT ![c] = code[c]]
  /\ UNCHANGED <<clock, NilUsers, LedgerTable, nextUid, req, trEntry, uid,
                 sender, code, debited, queryVars>>

Next ==
  \/ Tick
  \/ \E c \in Calls, r \in Requests : Reject(c, r)
  \/ \E c \in Calls, r \in Requests, err \in BOOLEAN : GetSender(c, r, err)
  \/ \E c \in Calls, err \in BOOLEAN : GetReceiver(c, err)
  \/ \E c \in Calls, err \in BOOLEAN : Debit(c, err)
  \/ \E c \in Calls, err \in BOOLEAN : Credit(c, err)
  \/ \E c \in Calls, err \in BOOLEAN : Rollback(c, err)
  \/ \E c \in Calls, err \in BOOLEAN : Save(c, err)

Spec == Init /\ [][Next]_vars

-----------------------------------------------------------------------------
(* The query functions, over a TransactionsTable that holds a fixed set of  *)
(* items.  The store is the DynamoDB API the functions call: a Query reads  *)
(* the items that satisfy its key condition in the order of the table or    *)
(* index, starts after ExclusiveStartKey, reads at most Limit items, and    *)
(* only then applies its FilterExpression; it returns a LastEvaluatedKey    *)
(* when it stopped at the Limit.                                            *)

\* The default page size of GetAllNilTransactions.
DefaultLimit == 25

\* The item kept for the transaction value of lines 253-264, with its
\* TransactionDate.  SystemTransactionID is stored as the attribute
\* TransactionID; ids are ksuids, ordered by the time they were made.
Entry(id, tenant, from, to, date, status) ==
  [TenantID |-> tenant, AccountID |-> from, SystemTransactionID |-> id,
   FromAccount |-> from, ToAccount |-> to, Amount |-> 60,
   TransactionDate |-> date, Status |-> status]

\* The items a table is drawn from: both tenants, both directions, a
\* transfer of an account to itself, both statuses, three dates.
Entries ==
  {Entry(1, "nil", "A", "B", 1, StatusSuccess),
   Entry(2, "nil", "B", "A", 1, StatusFailed),
   Entry(3, "nil", "A", "A", 2, StatusSuccess),
   Entry(4, "t1", "A", "B", 2, StatusSuccess),
   Entry(5, "nil", "A", "B", 3, StatusFailed),
   Entry(6, "nil", "B", "A", 3, StatusSuccess)}

Tables == {T \in SUBSET Entries : Cardinality(T) <= MaxRecords}

QueryInit ==
  /\ TransferIdle
  /\ TransactionsTable \in Tables
  /\ QueryIdle

\* Arguments of the calls.
QueryTenants == {"", "nil", "t1"}
QueryAccounts == {"A", "B"}
Limits == 1..MaxLimit
QueryIDs == {x.SystemTransactionID : x \in Entries}
Times == 0..3

\* TransactionFilter without its LastEvaluatedKey; a StartTime or EndTime
\* of 0 and a Status of -1 (a nil pointer) are bounds not given, a Limit of
\* 0 is a limit not given.
SearchFilters ==
  [AccountID : {""} \cup QueryAccounts, StartTime : Times, EndTime : Times,
   Status : {-1, StatusSuccess, StatusFailed}, Limit : 0..MaxLimit]

Min(a, b) == IF a < b THEN a ELSE b

\* The key attributes of TransactionsTable ("" is a nil IndexName: the table
\* itself) and of its indexes.  The table's are those of the Key of GetItem
\* (lines 598-601) and UpdateItem (lines 667-670) and of every
\* ExclusiveStartKey (lines 498-501, 568-571); an index's are those its key
\* condition names (lines 558, 745).
KeySchema(index) ==
  CASE index = "" -> {"TenantID", "TransactionID"}
    [] index = "FromAccountIndex" -> {"TenantID", "FromAccount"}
    [] index = "ToAccountIndex" -> {"TenantID", "ToAccount"}
    [] index = "TransactionDateIndex" -> {"TenantID", "TransactionDate"}

\* The string attributes a key condition compares.
Attr(x, name) ==
  CASE name = "TenantID" -> x.TenantID
    [] name = "AccountID" -> x.AccountID
    [] name = "FromAccount" -> x.FromAccount
    [] name = "ToAccount" -> x.ToAccount

\* The key a Query returns for an item: its primary key and, on the date
\* index, its TransactionDate.
KeyOf(x, index) ==
  [TenantID |-> x.TenantID, TransactionID |-> x.SystemTransactionID,
   TransactionDate |->
     IF index = "TransactionDateIndex" THEN x.TransactionDate ELSE 0]

\* The place of a key in the order of the table or index: by TransactionID
\* in the table, by TransactionDate and then TransactionID in the date
\* index.  The account indexes pin both of their key attributes, so the
\* items of one query lie in the order of their primary keys.
Position(key) == <<key.TransactionDate, key.TransactionID>>

Before(p, q) == p[1] < q[1] \/ (p[1] = q[1] /\ p[2] < q[2])

RECURSIVE ScanForward(_, _)
ScanForward(S, index) ==
  IF S = {} THEN <<>>
  ELSE LET first ==
             CHOOSE x \in S :
               \A y \in S \ {x} :
                 Before(Position(KeyOf(x, index)), Position(KeyOf(y, index)))
       IN <<first>> \o ScanForward(S \ {first}, index)

Reverse(s) == [i \in 1..Len(s) |-> s[Len(s) + 1 - i]]

\* The items of S in the order a Query reads them.
Scan(S, index, forward) ==
  IF forward THEN ScanForward(S, index) ELSE Reverse(ScanForward(S, index))

\* KeyConditionExpression: equalities on string attributes (Key) and, when
\* Between is not <<0, 0>>, TransactionDate BETWEEN its two bounds.
KeyCondition(x, input) ==
  /\ \A a \in DOMAIN input.Key : Attr(x, a) = input.Key[a]
  /\ input.Between # <<0, 0>>
       => /\ input.Between[1] <= x.TransactionDate
          /\ x.TransactionDate <= input.Between[2]

NoFilter == [AccountID |-> "", Status |-> -1, TransactionID |-> 0]

\* FilterExpression: the conjunction of the conditions that were added.
Matches(x, f) ==
  /\ f.AccountID # ""
       => x.FromAccount = f.AccountID \/ x.ToAccount = f.AccountID
  /\ f.Status # -1 => x.Status = f.Status
  /\ f.TransactionID # 0 => x.SystemTransactionID = f.TransactionID

\* An ExclusiveStartKey must hold the key attributes of the table and of
\* the index queried.  The keys built at lines 498-501 and 568-571 hold
\* TenantID and TransactionID only.
StartKeyFits(index, key) ==
  CASE index = "" -> key.TransactionDate = 0
    [] index = "TransactionDateIndex" -> key.TransactionDate # 0
    [] OTHER -> FALSE

\* The store accepts a Query whose key condition names key attributes of
\* the table or index queried, the partition key TenantID among them, with
\* values that are not empty.
Accepted(input) ==
  /\ "TenantID" \in DOMAIN input.Key
  /\ DOMAIN input.Key \subseteq KeySchema(input.IndexName)
  /\ \A a \in DOMAIN input.Key : input.Key[a] # ""
  /\ input.Between # <<0, 0>>
       => "TransactionDate" \in KeySchema(input.IndexName)
  /\ input.Limit >= 1
  /\ input.ExclusiveStartKey # NoKey
       => StartKeyFits(input.IndexName, input.ExclusiveStartKey)

\* dbSvc.Query.  err is a failure of the backend.
Query(input, err) ==
  IF err
    THEN [Items |-> <<>>, LastEvaluatedKey |-> NoKey, err |-> "backend"]
  ELSE IF ~Accepted(input)
    THEN [Items |-> <<>>, LastEvaluatedKey |-> NoKey, err |-> "rejected"]
  ELSE
    LET index == input.IndexName
        start == input.ExclusiveStartKey
        After(x) ==
          IF input.ScanIndexForward
            THEN Before(Position(start), Position(KeyOf(x, index)))
            ELSE Before(Position(KeyOf(x, index)), Position(start))
        matching == {x \in TransactionsTable : KeyCondition(x, input)}
        ordered == Scan(matching, index, input.ScanIndexForward)
        rest == SelectSeq(ordered, LAMBDA x : start = NoKey \/ After(x))
        n == Min(input.Limit, Len(rest))
        read == SubSeq(rest, 1, n)
    IN [Items |-> SelectSeq(read, LAMBDA x : Matches(x, input.Filter)),
        LastEvaluatedKey |->
          IF Len(rest) >= input.Limit THEN KeyOf(read[n], index) ELSE NoKey,
        err |-> ""]

\* dbSvc.GetItem on TransactionsTable by (TenantID, TransactionID).
GetItem(tenantID, id, err) ==
  IF err THEN [Item |-> {}, err |-> "backend"]
  ELSE IF tenantID = "" THEN [Item |-> {}, err |-> "rejected"]
  ELSE [Item |-> {x \in TransactionsTable :
                    x.TenantID = tenantID /\ x.SystemTransactionID = id},
        err |-> ""]

\* The tenant of a query: "nil" when none is given.
QueryTenant(tenantID) == IF tenantID = "" THEN SentinelTenant ELSE tenantID

Failure(err) == [items |-> <<>>, last |-> NoKey, err |-> err]

\* GetTransactions, lines 482-524.  lastTransactionID 0 is the empty string.
GetTransactions(tenantID, accountID, limit, lastTransactionID, err) ==
  LET tenant == QueryTenant(tenantID)
      input ==
        [IndexName |-> "",
         Key |-> ("TenantID" :> tenant) @@ ("AccountID" :> accountID),
         Between |-> <<0, 0>>, Filter |-> NoFilter, Limit |-> limit,
         ScanIndexForward |-> TRUE,
         ExclusiveStartKey |->
           IF lastTransactionID = 0 THEN NoKey
           ELSE [TenantID |-> tenant, TransactionID |-> lastTransactionID,
                 TransactionDate |-> 0]]
      resp == Query(input, err)
  IN IF resp.err # "" THEN Failure(resp.err)
     ELSE [items |-> resp.Items,
           last |-> [NoKey EXCEPT !.TransactionID =
                                    resp.LastEvaluatedKey.TransactionID],
           err |-> ""]

\* Mutant of getTransactionsByIndex: the index is read oldest first.
getTransactionsByIndexForward(tenantID, indexName, attributeName, accountID, limit, err) ==
  LET input ==
        [IndexName |-> indexName,
         Key |-> ("TenantID" :> QueryTenant(tenantID))
                 @@ (attributeName :> accountID),
         Between |-> <<0, 0>>, Filter |-> NoFilter, Limit |-> limit,
         ScanIndexForward |-> TRUE, ExclusiveStartKey |-> NoKey]
      resp == Query(input, err)
  IN IF resp.err # "" THEN Failure(resp.err)
     ELSE [items |-> resp.Items,
           last |-> [NoKey EXCEPT !.TransactionID =
                                    resp.LastEvaluatedKey.TransactionID],
           err |-> ""]

\* getTransactionsByIndex, lines 551-591, as GetDetailedTransactions calls
\* it: with an empty lastTransactionID.
getTransactionsByIndex(tenantID, indexName, attributeName, accountID, limit, err) ==
  LET input ==
        [IndexName |-> indexName,
         Key |-> ("TenantID" :> QueryTenant(tenantID))
                 @@ (attributeName :> accountID),
         Between |-> <<0, 0>>, Filter |-> NoFilter, Limit |-> limit,
         ScanIndexForward |-> FALSE, ExclusiveStartKey |-> NoKey]
      resp == Query(input, err)
  IN IF resp.err # "" THEN Failure(resp.err)
     ELSE [items |-> resp.Items,
           last |-> [NoKey EXCEPT !.TransactionID =
                                    resp.LastEvaluatedKey.TransactionID],
           err |-> ""]

\* GetDetailedTransactions, lines 529-548.
GetDetailedTransactions(tenantID, accountID, limit, err1, err2) ==
  LET tenant == QueryTenant(tenantID)
      sent ==
        getTransactionsByIndex(tenant, "FromAccountIndex", "FromAccount",
                               accountID, limit, err1)
      received ==
        getTransactionsByIndex(tenant, "ToAccountIndex", "ToAccount",
                               accountID, limit, err2)
  IN IF sent.err # "" THEN Failure(sent.err)
     ELSE IF received.err # "" THEN Failure(received.err)
     ELSE [items |-> sent.items \o received.items, last |-> NoKey,
           err |-> ""]

\* GetTransaction, lines 594-631: GetItem, then a Query of the items of the
\* account with Limit 1 and the filter TransactionID = :systemTxId.  The
\* tenant is used as given.
GetTransaction(tenantID, accountID, systemTransactionID, err1, err2) ==
  LET result == GetItem(tenantID, systemTransactionID, err1)
      queryInput ==
        [IndexName |-> "",
         Key |-> ("TenantID" :> tenantID) @@ ("AccountID" :> accountID),
         Between |-> <<0, 0>>,
         Filter |-> [NoFilter EXCEPT !.TransactionID = systemTransactionID],
         Limit |-> 1, ScanIndexForward |-> TRUE,
         ExclusiveStartKey |-> NoKey]
      queryResult == Query(queryInput, err2)
  IN IF result.err # "" THEN Failure(result.err)
     ELSE IF result.Item # {}
       THEN [items |-> <<CHOOSE x \in result.Item : TRUE>>, last |-> NoKey,
             err |-> ""]
     ELSE IF queryResult.err # "" THEN Failure(queryResult.err)
     ELSE IF Len(queryResult.Items) = 0 THEN NoResult
     ELSE [items |-> <<queryResult.Items[1]>>, last |-> NoKey, err |-> ""]

\* GetAllNilTransactions, lines 718-797.
GetAllNilTransactions(tenantId, filter, err) ==
  LET ranged == filter.StartTime # 0 /\ filter.EndTime # 0
      queryInput ==
        [IndexName |-> IF ranged THEN "TransactionDateIndex" ELSE "",
         Key |-> ("TenantID" :> QueryTenant(tenantId)),
         Between |->
           IF ranged THEN <<filter.StartTime, filter.EndTime>> ELSE <<0, 0>>,
         Filter |-> [NoFilter EXCEPT !.AccountID = filter.AccountID,
                                     !.Status = filter.Status],
         Limit |-> IF filter.Limit = 0 THEN DefaultLimit ELSE filter.Limit,
         ScanIndexForward |-> FALSE,
         ExclusiveStartKey |-> filter.LastEvaluatedKey]
      output == Query(queryInput, err)
  IN IF output.err # "" THEN Failure(output.err)
     ELSE [items |-> output.Items, last |-> output.LastEvaluatedKey,
           err |-> ""]

\* The query functions only read the table and keep nothing between calls,
\* so a behaviour is one call and the calls that continue it.
First == qcall = NoCall

\* The last call is a call of op with arguments a, and its result asks for
\* the next page.
More(op, a) ==
  /\ qcall.op = op
  /\ [qcall EXCEPT !.Start = NoKey] = [a EXCEPT !.Start = NoKey]
  /\ qresult.err = ""
  /\ qresult.last # NoKey

\* ListByAccount: GetTransactions with an empty cursor (more = FALSE) or,
\* with the same arguments, with the cursor the last call returned.
ListByAccount(tenant, account, limit, more, err) ==
  LET cursor == IF more THEN qresult.last.TransactionID ELSE 0
      a == [NoCall EXCEPT !.op = "ListByAccount", !.TenantID = tenant,
                          !.AccountID = account, !.Limit = limit,
                          !.Start = [NoKey EXCEPT !.TransactionID = cursor]]
      r == GetTransactions(tenant, account, limit, cursor, err)
  IN /\ IF more THEN More("ListByAccount", a) ELSE First
     /\ qcall' = a
     /\ qresult' = r
     /\ qpages' = (IF more THEN qpages ELSE <<>>) \o <<r.items>>
     /\ UNCHANGED <<transferVars, TransactionsTable>>

\* ListDetailed: GetDetailedTransactions.
ListDetailed(tenant, account, limit, err1, err2) ==
  LET r == GetDetailedTransactions(tenant, account, limit, err1, err2)
  IN /\ First
     /\ qcall' = [NoCall EXCEPT !.op = "ListDetailed", !.TenantID = tenant,
                                !.AccountID = account, !.Limit = limit]
     /\ qresult' = r
     /\ qpages' = <<r.items>>
     /\ UNCHANGED <<transferVars, TransactionsTable>>

\* GetOne: GetTransaction.
GetOne(tenant, account, txId, err1, err2) ==
  LET r == GetTransaction(tenant, account, txId, err1, err2)
  IN /\ First
     /\ qcall' = [NoCall EXCEPT !.op = "GetOne", !.TenantID = tenant,
                                !.AccountID = account,
                                !.TransactionID = txId]
     /\ qresult' = r
     /\ qpages' = <<r.items>>
     /\ UNCHANGED <<transferVars, TransactionsTable>>

\* Search: GetAllNilTransactions with no continuation token (more = FALSE)
\* or, with the same filter, with the token the last call returned.
Search(tenant, f, more, err) ==
  LET token == IF more THEN qresult.last ELSE NoKey
      a == [NoCall EXCEPT !.op = "Search", !.TenantID = tenant,
                          !.AccountID = f.AccountID, !.Limit = f.Limit,
                          !.StartTime = f.StartTime, !.EndTime = f.EndTime,
                          !.Status = f.Status, !.Start = token]
      filter ==
        [AccountID |-> f.AccountID, StartTime |-> f.StartTime,
         EndTime |-> f.EndTime, Status |-> f.Status, Limit |-> f.Limit,
         LastEvaluatedKey |-> token]
      r == GetAllNilTransactions(tenant, filter, err)
  IN /\ IF more THEN More("Search", a) ELSE First
     /\ qcall' = a
     /\ qresult' = r
     /\ qpages' = (IF more THEN qpages ELSE <<>>) \o <<r.items>>
     /\ UNCHANGED <<transferVars, TransactionsTable>>

\* The values an argument takes: any of S in a first call, the value of the
\* last call in a call that continues it.
Arg(more, S, last) == IF more THEN {last} ELSE IF First THEN S ELSE {}

\* The filter of the last call.
LastFilter ==
  [AccountID |-> qcall.AccountID, StartTime |-> qcall.StartTime,
   EndTime |-> qcall.EndTime, Status |-> qcall.Status, Limit |-> qcall.Limit]

QueryNext ==
  \/ \E more \in BOOLEAN, err \in BOOLEAN :
       \E t \in Arg(more, QueryTenants, qcall.TenantID),
          a \in Arg(more, QueryAccounts, qcall.AccountID),
          n \in Arg(more, Limits, qcall.Limit) :
         ListByAccount(t, a, n, more, err)
  \/ \E t \in Arg(FALSE, QueryTenants, ""), a \in QueryAccounts, n \in Limits,
        err1 \in BOOLEAN, err2 \in BOOLEAN : ListDetailed(t, a, n, err1, err2)
  \/ \E t \in Arg(FALSE, QueryTenants, ""), a \in QueryAccounts,
        id \in QueryIDs, err1 \in BOOLEAN, err2 \in BOOLEAN :
       GetOne(t, a, id, err1, err2)
  \/ \E more \in BOOLEAN, err \in BOOLEAN :
       \E t \in Arg(more, QueryTenants, qcall.TenantID),
          f \in Arg(more, SearchFilters, LastFilter) :
         Search(t, f, more, err)

QuerySpec == QueryInit /\ [][QueryNext]_vars

-----------------------------------------------------------------------------
(* Vocabulary of the properties. *)

OrdinaryErrors ==
  {"user_not_found", "insufficient_balance", "debit_failed", "credit_failed"}

Started(c) == pc[c] # "idle"

\* The request is one of the spec's Transfer(tenant, from, to, amount, ...):
\* its AccountID names the sender.
SingleSender(c) == req[c].AccountID = req[c].FromAccount

\* ... between two different accounts and for a positive amount.
Ordinary(c) ==
  /\ SingleSender(c)
  /\ req[c].FromAccount # ""
  /\ req[c].FromAccount # req[c].ToAccount
  /\ req[c].Amount > 0

Issued(c, op) == \E m \in log[c] : m.op = op
Committed(c, op) == \E m \in log[c] : m.op = op /\ m.ok
Failed(c, op) == \E m \in log[c] : m.op = op /\ ~m.ok

Mutations == {"debit", "credit", "rollback"}

\* What mutation op of call c added to the balance under key k.
Delta(c, op, k) ==
  LET ms == {m \in log[c] : m.op = op /\ m.ok /\ m.key = k}
  IN IF ms = {} THEN 0 ELSE (CHOOSE m \in ms : TRUE).delta

\* The net effect of call c on the balance under key k.
Net(c, k) ==
  Delta(c, "debit", k) + Delta(c, "credit", k) + Delta(c, "rollback", k)

\* The LedgerEntry rows and TransactionRecords of call c.
Rows(c) ==
  {e \in LedgerTable :
     e.SystemTransactionID = uid[c] /\ e.TenantID = trEntry[c].TenantID}
Records(c) ==
  {t \in TransactionsTable :
     t.SystemTransactionID = uid[c] /\ t.TenantID = trEntry[c].TenantID}

-----------------------------------------------------------------------------

\* C1: a transfer between two different accounts that returned success has
\* taken exactly amount from the sender, given exactly amount to the
\* receiver, and has exactly two ledger rows: a debit on the sender and a
\* credit on the receiver, both of magnitude amount.  (Stated for positive
\* amounts and requests whose AccountID names the sender.)
C1_SuccessMovesExactlyAmount ==
  \A c \in Calls :
    (response[c] = "successful_transaction" /\ Ordinary(c))
    => /\ Net(c, FromKey(c)) = -req[c].Amount
       /\ Net(c, ToKey(c)) = req[c].Amount
       /\ Rows(c) = {LedgerEntry(c, req[c].FromAccount, "debit"),
                     LedgerEntry(c, req[c].ToAccount, "credit")}

\* C2: when every transfer started so far has a positive amount, no balance
\* is negative, in any interleaving.  (Stated for transfers between two
\* different accounts whose AccountID names the sender.)
C2_BalanceNeverNegative ==
  (\A c \in Calls : Started(c) => Ordinary(c))
  => \A k \in DOMAIN NilUsers : NilUsers[k].amount >= 0

\* C3: a transfer that returned one of the four error codes has zero or two
\* ledger rows, never one.  (Stated for positive amounts and two different
\* accounts.)
C3_FailedRowsInPairs ==
  \A c \in Calls :
    (response[c] \in OrdinaryErrors /\ Ordinary(c))
    => Cardinality(Rows(c)) \in {0, 2}

\* C4: a transfer that returned success or one of the four error codes has
\* exactly one TransactionRecord, whose status is success exactly when the
\* transfer returned success.
C4_ExactlyOneRecord ==
  \A c \in Calls :
    response[c] \in OrdinaryErrors \cup {"successful_transaction"}
    => /\ Cardinality(Records(c)) = 1
       /\ \A t \in Records(c) :
            t.Status = StatusSuccess
            <=> response[c] = "successful_transaction"

\* C5: of two transfers from the same sender that read the same sender
\* balance and version and whose amounts together exceed that balance, at
\* most one debit commits.
C5_AtMostOneDebitCommits ==
  \A c1, c2 \in Calls :
    (/\ c1 # c2
     /\ Ordinary(c1) /\ Ordinary(c2)
     /\ Committed(c1, "get_sender") /\ Committed(c2, "get_sender")
     /\ FromKey(c1) = FromKey(c2)
     /\ sender[c1] = sender[c2]
     /\ req[c1].Amount + req[c2].Amount > sender[c1].amount)
    => ~(Committed(c1, "debit") /\ Committed(c2, "debit"))

C7_RollbackFailureIsFatal ==
  \A c \in Calls :
    Failed(c, "rollback")
    => /\ pc[c] = "panicked"
       /\ response[c] = "panic_rollback"
       /\ response[c] \notin OrdinaryErrors \cup {"successful_transaction"}
       /\ ~Issued(c, "save")
       /\ Records(c) = {}

\* A rollback failed after its debit had committed.
C7_Witness == \E c \in Calls : Failed(c, "rollback") /\ Committed(c, "debit")

\* C8 as claimed: a transfer whose debit write failed has, once it has
\* ended, returned debit_failed, and nothing of it has committed.
C8_DebitFailureReturnsDebitFailed ==
  \A c \in Calls :
    (Failed(c, "debit") /\ pc[c] \in {"done", "panicked"})
    => /\ response[c] = "debit_failed"
       /\ \A op \in Mutations : ~Committed(c, op)
       /\ Rows(c) = {}
       /\ ~Issued(c, "rollback")

\* C8 as amended: after a failed debit write nothing of the transfer has
\* committed or ever commits, no credit and no rollback is issued, and the
\* transfer ends either by returning debit_failed or, when the write of the
\* failure TransactionRecord fails, by the panic of that write.
C8_DebitFailureCommitsNothing ==
  \A c \in Calls :
    Failed(c, "debit")
    => /\ \A op \in Mutations : ~Committed(c, op)
       /\ \A k \in DOMAIN NilUsers : Net(c, k) = 0
       /\ Rows(c) = {}
       /\ ~Issued(c, "credit") /\ ~Issued(c, "rollback")
       /\ pc[c] \in {"save", "done", "panicked"}
       /\ pc[c] = "done" => response[c] = "debit_failed" /\ Committed(c, "save")
       /\ pc[c] = "panicked" => response[c] = "panic_save" /\ Failed(c, "save")

\* A debit refused by a version conflict, returned as debit_failed.
C8_Witness ==
  \E c \in Calls :
    /\ response[c] = "debit_failed"
    /\ FromKey(c) \in DOMAIN NilUsers
    /\ NilUsers[FromKey(c)].Version # sender[c].Version

\* C9: a transfer whose amount exceeds the sender balance it read returns
\* insufficient_balance, issues no mutation, writes no ledger row, and
\* writes a failure TransactionRecord.
C9_InsufficientBalance ==
  \A c \in Calls :
    (/\ pc[c] \in {"done", "panicked"}
     /\ Ordinary(c)
     /\ Committed(c, "get_sender") /\ Committed(c, "get_receiver")
     /\ req[c].Amount > sender[c].amount)
    => /\ response[c] = "insufficient_balance"
       /\ \A op \in Mutations : ~Issued(c, op)
       /\ Rows(c) = {}
       /\ \E t \in Records(c) : t.Status = StatusFailed

\* C10: a transfer whose sender or receiver does not exist in the tenant,
\* or whose lookup failed, returns user_not_found, issues no mutation,
\* writes no ledger row, and writes one failed TransactionRecord.
C10_UserNotFound ==
  \A c \in Calls :
    (/\ pc[c] \in {"done", "panicked"}
     /\ Ordinary(c)
     /\ \/ FromKey(c) \notin DOMAIN NilUsers
        \/ ToKey(c) \notin DOMAIN NilUsers
        \/ Failed(c, "get_sender")
        \/ Failed(c, "get_receiver"))
    => /\ response[c] = "user_not_found"
       /\ \A op \in Mutations : ~Issued(c, op)
       /\ Rows(c) = {}
       /\ Cardinality(Records(c)) = 1
       /\ \A t \in Records(c) : t.Status = StatusFailed

\* C11: every step that changes an account (a committed debit, credit or
\* rollback) leaves its version strictly greater than it was, however little
\* wall-clock time has passed.
C11_VersionStrictlyIncreases ==
  [][\A k \in DOMAIN NilUsers :
       NilUsers'[k] # NilUsers[k]
       => NilUsers'[k].Version > NilUsers[k].Version]_vars

\* C12: a request whose FromAccount is empty is rejected as malformed and
\* makes no remote call: nothing is read, nothing is written.
C12_EmptyFromTouchesNothing ==
  \A c \in Calls :
    (Started(c) /\ req[c].FromAccount = "")
    => response[c] = "validation_error" /\ log[c] = {}

\* The request passed the validation of lines 243-245.
Validated(c) == Started(c) /\ req[c].AccountID # ""

\* C13: two calls that passed validation have different ids, and two calls
\* with the same request that have both returned have each written their
\* own TransactionRecord: two records with different ids exist.
C13_DistinctIdsAndRecords ==
  \A c1, c2 \in Calls :
    (c1 # c2 /\ Validated(c1) /\ Validated(c2))
    => /\ uid[c1] # uid[c2]
       /\ (req[c1] = req[c2] /\ pc[c1] = "done" /\ pc[c2] = "done")
          => /\ Cardinality(Records(c1)) = 1
             /\ Cardinality(Records(c2)) = 1
             /\ Records(c1) \cap Records(c2) = {}

\* The debit of call c was attempted when the version of its sender was no
\* longer the version the call had read.
Conflicted(c) == Issued(c, "stale")

DebitAttempts(c) == {m \in log[c] : m.op = "debit"}

\* C18 as claimed: a transfer that passed the balance check and whose debit
\* found the sender's version changed ends with debit_failed, not with
\* insufficient_balance; it changes no balance and makes one debit attempt.
\* (Stated for requests whose AccountID names the sender.)
C18_ConflictReturnsDebitFailed ==
  \A c \in Calls :
    (Conflicted(c) /\ SingleSender(c))
    => /\ req[c].Amount <= sender[c].amount
       /\ \A op \in Mutations : ~Committed(c, op)
       /\ \A k \in DOMAIN NilUsers : Net(c, k) = 0
       /\ Cardinality(DebitAttempts(c)) = 1
       /\ code[c] = "debit_failed"
       /\ pc[c] \in {"done", "panicked"} => response[c] = "debit_failed"

\* C18 as amended: such a transfer prepares debit_failed, never
\* insufficient_balance, changes no balance, makes one debit attempt and
\* issues no credit and no rollback; it ends by returning debit_failed or,
\* when the write of the failure TransactionRecord fails, by the panic of
\* that write.
C18_ConflictFailsDebit ==
  \A c \in Calls :
    (Conflicted(c) /\ SingleSender(c))
    => /\ req[c].Amount <= sender[c].amount
       /\ \A op \in Mutations : ~Committed(c, op)
       /\ \A k \in DOMAIN NilUsers : Net(c, k) = 0
       /\ Cardinality(DebitAttempts(c)) = 1
       /\ ~Issued(c, "credit") /\ ~Issued(c, "rollback")
       /\ code[c] = "debit_failed"
       /\ pc[c] \in {"save", "done", "panicked"}
       /\ pc[c] = "done" => response[c] = "debit_failed"
       /\ pc[c] = "panicked" => response[c] = "panic_save"

\* A transfer returned debit_failed after its debit found the version
\* changed by the committed debit of another transfer from the same sender.
C18_Witness ==
  \E c, d \in Calls :
    /\ c # d
    /\ Conflicted(c) /\ SingleSender(c) /\ response[c] = "debit_failed"
    /\ Committed(d, "debit") /\ FromKey(d) = FromKey(c)

\* C19: while a transfer stands between its committed debit and its credit,
\* and for as long as it stays there, the sender has lost exactly amount to
\* it, the receiver has gained nothing from it, and its one ledger row is the
\* debit row.  (Stated for positive amounts, two different accounts and
\* requests whose AccountID names the sender.)
C19_DebitWithoutCreditPersists ==
  \A c \in Calls :
    (pc[c] = "credit" /\ Ordinary(c))
    => /\ Committed(c, "debit") /\ ~Issued(c, "credit")
       /\ Net(c, FromKey(c)) = -req[c].Amount
       /\ Net(c, ToKey(c)) = 0
       /\ Rows(c) = {LedgerEntry(c, req[c].FromAccount, "debit")}

\* Call c issues a balance mutation in this step.
Mutates(c) == \E m \in log'[c] \ log[c] : m.op \in Mutations

\* C20: the step in which a transfer issues a debit, a credit or a rollback
\* starts and ends with no TransactionRecord of that transfer; a record
\* exists only once the transfer has returned, and its status is success or
\* failed, never pending.
C20_RecordAfterLastMutation ==
  [][\A c \in Calls :
       /\ Mutates(c) => Records(c) = {} /\ Records(c)' = {}
       /\ Records(c)' # {}
          => /\ pc'[c] = "done"
             /\ \A t \in Records(c)' :
                  t.Status \in {StatusSuccess, StatusFailed}]_vars

\* A transfer has written its record after a debit and a rollback.
C20_Witness ==
  \E c \in Calls :
    Committed(c, "debit") /\ Committed(c, "rollback") /\ Records(c) # {}

-----------------------------------------------------------------------------
(* Vocabulary of the properties of the query functions. *)

\* The tenant the last call asked about.
AskedTenant == QueryTenant(qcall.TenantID)

\* The records of the account asked about: the items of its tenant whose
\* AccountID is the account.
Partition ==
  {x \in TransactionsTable :
     x.TenantID = AskedTenant /\ x.AccountID = qcall.AccountID}

RECURSIVE Flatten(_)
Flatten(ps) == IF ps = <<>> THEN <<>> ELSE Head(ps) \o Flatten(Tail(ps))

Range(s) == {s[i] : i \in DOMAIN s}

NoDuplicates(s) == \A i, j \in DOMAIN s : i # j => s[i] # s[j]

\* s lists the Len(s) most recent items of S, the most recent first.
NewestFirst(s, S) ==
  \A i \in DOMAIN s :
    /\ s[i] \in S
    /\ Cardinality({y \in S : y.SystemTransactionID
                               > s[i].SystemTransactionID}) = i - 1

\* C14: paging through an account with ListByAccount, when no backend call
\* fails, returns no error; every page but the last has Limit items, no
\* record is returned twice, every record returned is one of the account,
\* the calls are at most one more than the account has records, and when
\* the returned cursor is empty every record of the account has been
\* returned.
C14_ListByAccountPaginates ==
  (qcall.op = "ListByAccount" /\ qresult.err # "backend")
  => LET all == Flatten(qpages)
     IN /\ qresult.err = ""
        /\ Len(qpages) <= Cardinality(Partition) + 1
        /\ \A i \in 1..(Len(qpages) - 1) : Len(qpages[i]) = qcall.Limit
        /\ Len(qresult.items) <= qcall.Limit
        /\ NoDuplicates(all)
        /\ Range(all) \subseteq Partition
        /\ qresult.last = NoKey => Range(all) = Partition

\* C15: GetOne for a given tenant, when no backend call fails, returns no
\* error; it returns the record of that tenant with the id asked for when
\* there is one, and nothing when there is none.
C15_GetOneFindsRecord ==
  (qcall.op = "GetOne" /\ qcall.TenantID # "" /\ qresult.err # "backend")
  => LET found ==
           {x \in TransactionsTable :
              /\ x.TenantID = qcall.TenantID
              /\ x.SystemTransactionID = qcall.TransactionID}
     IN /\ qresult.err = ""
        /\ IF found = {} THEN qresult.items = <<>>
           ELSE Len(qresult.items) = 1 /\ qresult.items[1] \in found

\* C16: every record Search returns is of the tenant asked about and
\* satisfies each filter component given: the account is its sender or its
\* receiver, its date is not before the start and not after the end, its
\* status is the status; at most Limit records are returned (25 when no
\* limit is given), and continuing with the returned token returns no
\* record again.
C16_SearchHonoursFilter ==
  (qcall.op = "Search" /\ qresult.err = "")
  => /\ \A i \in DOMAIN qresult.items :
          LET x == qresult.items[i]
          IN /\ x.TenantID = AskedTenant
             /\ qcall.AccountID # ""
                  => \/ x.FromAccount = qcall.AccountID
                     \/ x.ToAccount = qcall.AccountID
             /\ qcall.StartTime # 0 => x.TransactionDate >= qcall.StartTime
             /\ qcall.EndTime # 0 => x.TransactionDate <= qcall.EndTime
             /\ qcall.Status # -1 => x.Status = qcall.Status
     /\ Len(qresult.items)
          <= (IF qcall.Limit = 0 THEN DefaultLimit ELSE qcall.Limit)
     /\ NoDuplicates(Flatten(qpages))

-----------------------------------------------------------------------------
(* Further properties of TransferCredits. *)

\* The sender item is as the debit of call c left it: nothing has mutated it
\* since.  (A mutation that leaves the same amount and the same version
\* leaves the same condition to the rollback.)
Untouched(c) ==
  FromKey(c) \in DOMAIN NilUsers /\ NilUsers[FromKey(c)] = debited[c]

\* C21: when the credit has failed after a committed debit and nothing else
\* has mutated the sender since that debit, the version condition of the
\* rollback holds, so that the rollback fails only by a backend error and
\* the transfer otherwise goes on to return credit_failed.
C21_RollbackConditionHolds ==
  \A c \in Calls :
    (pc[c] = "rollback" /\ Untouched(c))
    => VersionCondition(c, FromKey(c))


\* The tenants that hold accounts.
Tenants == {k[1] : k \in DOMAIN InitUsers}

RECURSIVE Sum(_, _)
\* The sum of the balances table U holds under the keys of K.
Sum(U, K) ==
  IF K = {} THEN 0
  ELSE LET k == CHOOSE x \in K : TRUE
       IN U[k].amount + Sum(U, K \ {k})

\* The sum of the balances of the accounts of tenant t in table U.
Total(U, t) == Sum(U, {k \in DOMAIN U : k[1] = t})

\* Every transfer that has started has returned success or one of the four
\* error codes.
AllReturned ==
  \A c \in Calls :
    Started(c) => response[c] \in OrdinaryErrors \cup {"successful_transaction"}

\* C22: in a state where every started transfer has returned success or one
\* of the four error codes, the balances of each tenant add up to what they
\* added up to initially, whatever the interleaving.
C22_SumOfBalancesConserved ==
  AllReturned
  => \A t \in Tenants : Total(NilUsers, t) = Total(InitUsers, t)

\* Both transfers have returned, one of them with success and one with
\* credit_failed, and the balances differ from the initial ones.
C22_Witness ==
  /\ AllReturned
  /\ \E c \in Calls : response[c] = "successful_transaction"
  /\ \E c \in Calls : response[c] = "credit_failed"
  /\ NilUsers # InitUsers


\* The keys under which remote call op of call c took effect.
Keys(c, op) == {m.key : m \in {x \in log[c] : x.op = op /\ x.ok}}

\* C23: in every transfer that passed validation, the account the sender
\* lookup read (whose balance is checked against the amount and whose
\* version the debit and the rollback expect) is the account the debit
\* mutates, also when AccountID and FromAccount differ.
C23_LookupReadsDebitedAccount ==
  \A c \in Calls :
    (Validated(c) /\ Committed(c, "debit"))
    => Keys(c, "debit") = Keys(c, "get_sender")


\* C24: whatever amount the validation let through (zero and negative ones
\* included), a transfer has at no point added to the balance of its sender
\* or taken from the balance of its receiver.
C24_NeverPaysTheSender ==
  \A c \in Calls :
    Validated(c)
    => /\ Net(c, FromKey(c)) <= 0 \/ FromKey(c) = ToKey(c)
       /\ Net(c, ToKey(c)) >= 0 \/ FromKey(c) = ToKey(c)


\* The tenant of the request of call c: the sentinel tenant when the caller
\* gave none.
TenantOf(c) == IF req[c].TenantID = "" THEN SentinelTenant ELSE req[c].TenantID

\* The accounts Transfer(tenant, from, to) of call c names.
Parties(c) ==
  {Key(TenantOf(c), req[c].FromAccount), Key(TenantOf(c), req[c].ToAccount)}

\* C25: a step changes the balance or version of an account only as a
\* mutation of a transfer whose (tenant, from) or (tenant, to) that account
\* is, and creates or deletes no account; and every account a transfer with
\* no tenant given has read or written is an account of the sentinel tenant.
C25_OnlyThePartiesChange ==
  /\ [][/\ DOMAIN NilUsers' = DOMAIN NilUsers
        /\ \A k \in DOMAIN NilUsers :
             NilUsers'[k] # NilUsers[k]
             => \E c \in Calls : Mutates(c) /\ k \in Parties(c)]_vars
  /\ [](\A c \in Calls :
          req[c].TenantID = ""
          => \A m \in log[c] : m.key[1] = SentinelTenant)

\* A transfer with no tenant given has moved money from A to B in the
\* sentinel tenant, and account A of tenant t1 is as it was.
C25_Witness ==
  \E c \in Calls :
    /\ req[c].TenantID = "" /\ req[c].FromAccount = "A"
    /\ Committed(c, "debit") /\ Committed(c, "credit")
    /\ NilUsers[Key(SentinelTenant, "A")] # InitUsers[Key(SentinelTenant, "A")]
    /\ NilUsers[Key("t1", "A")] = InitUsers[Key("t1", "A")]


\* What the debit of call c took from the sender and what its credit gave
\* to the receiver.
AmountDebited(c) == -Delta(c, "debit", FromKey(c))
AmountCredited(c) == Delta(c, "credit", ToKey(c))

\* C26: for a transfer that returned success, whatever its amount in
\* thousandths, the magnitude in its ledger rows and in its
\* TransactionRecord is the magnitude taken from the sender and given to
\* the receiver, and the amount compared with the sender's balance is the
\* amount debited.
C26_RecordedIsApplied ==
  \A c \in Calls :
    response[c] = "successful_transaction"
    => /\ \A e \in Rows(c) :
            /\ Abs(e.Amount) = Abs(AmountDebited(c))
            /\ Abs(e.Amount) = Abs(AmountCredited(c))
       /\ \A t \in Records(c) :
            /\ Abs(t.Amount) = Abs(AmountDebited(c))
            /\ Abs(t.Amount) = Abs(AmountCredited(c))
       /\ trEntry[c].Amount = AmountDebited(c)

=============================================================================
